---- MODULE Spec2Model ----
(***************************************************************************)
(* Model of the guitar-tab core of app/services/tab_generator.py:          *)
(* pitch/MIDI mapping, fretboard resolution, capo estimation, the tab      *)
(* renderer (generate_tab_notation, as a state machine over its loop),     *)
(* the rhythm analyser and the strumming classifier; and of the source     *)
(* separation service of app/services/source_separation.py as                *)
(* analyze_audio uses it.                                                  *)
(*                                                                         *)
(* Units.  Times are integers in centiseconds (0.01 s), pitches integers   *)
(* in centi-Hz (0.01 Hz), so 0.1 s is 10 and 261.63 Hz is 26163.  Real     *)
(* valued results (beat emphasis, mean IOI) are exact rationals            *)
(* [num, den] with den > 0; rhythm_consistency (std/mean, never negative)  *)
(* is carried as the rational [num, den] of its SQUARE, so that            *)
(* "consistency > 0.5" is the exact test 4*num > den.  Arithmetic is       *)
(* exact: the rounding of binary floating point is not modelled.           *)
(*                                                                         *)
(* Strings that the code builds character by character (the tab lines,     *)
(* note names) are sequences of one-character strings; fixed texts such    *)
(* as "Capo on fret " are single elements of such a sequence.              *)
(***************************************************************************)
EXTENDS Integers, Sequences, FiniteSets, TLC

VARIABLES
    notes,          \* generate_tab_notation: the (time, pitch) list argument
    use_capo,       \* generate_tab_notation: argument
    is_fingerstyle, \* generate_tab_notation: argument
    pc,             \* generate_tab_notation: position in the function body
    capo_fret,      \* generate_tab_notation: local
    tab_lines,      \* generate_tab_notation: local, six strings (sequences of characters)
    last_time,      \* generate_tab_notation: local
    idx,            \* generate_tab_notation: number of notes the for loop has consumed
    result,         \* generate_tab_notation: the returned string
    call,           \* the pure function being applied: [fn, args, ret]
    SPLEETER_AVAILABLE, \* source_separation.py: module flag set by the import
    separator,      \* SourceSeparation: self.separator
    separator_calls, \* the Separator(...) constructions made for the instance
    sep_pc,         \* "import", "no_instance" or "ready"
    sep_call        \* the source-separation operation being applied: [fn, args, ret]

vars ==
    <<notes, use_capo, is_fingerstyle, pc, capo_fret, tab_lines, last_time, idx, result, call,
      SPLEETER_AVAILABLE, separator, separator_calls, sep_pc, sep_call>>

sepVars == <<SPLEETER_AVAILABLE, separator, separator_calls, sep_pc, sep_call>>

tabVars == <<notes, use_capo, is_fingerstyle, pc, capo_fret, tab_lines, last_time, idx, result>>

---------------------------------------------------------------------------
(* Module constants of tab_generator.py *)

NOTES == <<"C", "C#", "D", "D#", "E", "F", "F#", "G", "G#", "A", "A#", "B">>

GUITAR_STRINGS == <<"E", "B", "G", "D", "A", "E">>

GUITAR_TUNING == <<64, 59, 55, 50, 45, 40>>

STRUMMING_PATTERNS ==
    [basic   |-> "D D D D (Down strums on each beat)",
     country |-> "D DU DU (Down, Down-Up, Down-Up)",
     rock    |-> "D DU UDU (Down, Down-Up, Up-Down-Up)",
     reggae  |-> "U D U D (Up, Down, Up, Down - emphasize offbeats)",
     waltz   |-> "D D D (Down strums in 3/4 time)",
     ballad  |-> "D DUD U (Down, Down-Up-Down, Up)"]

FINGERSTYLE_NA == "N/A (Fingerstyle)"

\* Python's None; also the only falsy value note_to_tab_position returns.
None == <<>>

---------------------------------------------------------------------------
(* Python string and number primitives *)

Digits == <<"0", "1", "2", "3", "4", "5", "6", "7", "8", "9">>

\* c * n for a one-character string c: empty when n <= 0.
Rep(c, n) == [k \in 1..n |-> c]

\* The decimal digits of n >= 0, as a sequence of characters.
RECURSIVE DecDigits(_)
DecDigits(n) ==
    IF n < 10 THEN <<Digits[n + 1]>> ELSE DecDigits(n \div 10) \o <<Digits[(n % 10) + 1]>>

\* str(n) for an integer n.
str(n) == IF n >= 0 THEN DecDigits(n) ELSE <<"-">> \o DecDigits(-n)

\* int(num/den) for den > 0: truncation toward zero.
IntTrunc(num, den) == IF num >= 0 THEN num \div den ELSE -((-num) \div den)

Max(a, b) == IF a >= b THEN a ELSE b

Abs(x) == IF x >= 0 THEN x ELSE -x

---------------------------------------------------------------------------
(* pitch_to_midi_note *)

\* The thirteen quarter-tone boundaries 440 * 2^6 * 2^((2j-1)/24) Hz, j = 0..12, of
\* the octave that starts a quarter tone below MIDI 141 (= 69 + 72), in centi-Hz
\* and rounded up.  Each boundary is irrational, so an integer pitch p has
\* round(69 + 12*log2(p/440)) >= 141 + j exactly when p >= SemitoneBounds[j + 1].
SemitoneBounds ==
    <<2735834, 2898516, 3070870, 3253474, 3446935, 3651901, 3869054,
      4099120, 4342866, 4601106, 4874702, 5164567, 5471668>>

TopOctaveMidi == 141

\* k = the number of doublings that bring pitch into the top octave.
RECURSIVE OctavesBelowTop(_)
OctavesBelowTop(pitch) ==
    IF pitch >= SemitoneBounds[1] THEN 0 ELSE 1 + OctavesBelowTop(2 * pitch)

RECURSIVE Doubled(_, _)
Doubled(pitch, k) == IF k = 0 THEN pitch ELSE Doubled(2 * pitch, k - 1)

\* int(round(69 + 12 * np.log2(pitch / 440.0))) for 0 < pitch < 54716.68 Hz.
RoundedSemitone(pitch) ==
    LET k == OctavesBelowTop(pitch)
        p == Doubled(pitch, k)
        j == CHOOSE i \in 0..11 : SemitoneBounds[i + 1] <= p /\ p < SemitoneBounds[i + 2]
    IN  TopOctaveMidi + j - 12 * k

\* Mutant: the reference pitch A4 = 440 Hz is numbered 60 instead of 69.
pitch_to_midi_note_Base60(pitch) == IF pitch <= 0 THEN 0 ELSE RoundedSemitone(pitch) - 9

pitch_to_midi_note(pitch) == IF pitch <= 0 THEN 0 ELSE RoundedSemitone(pitch)

---------------------------------------------------------------------------
(* midi_to_note_name *)

midi_to_note_name(midi_note) ==
    IF midi_note <= 0
    THEN <<>>
    ELSE LET note_idx == (midi_note - 21) % 12
             octave == (midi_note - 12) \div 12
         IN  <<NOTES[note_idx + 1]>> \o str(octave)

---------------------------------------------------------------------------
(* note_to_tab_position *)

MaxFret == 24

\* The body of the for loop from string index i on; <<string_idx, fret>> or None.
RECURSIVE ScanStrings(_, _)
ScanStrings(midi_note, i) ==
    IF i >= Len(GUITAR_TUNING)
    THEN None
    ELSE LET fret == midi_note - GUITAR_TUNING[i + 1]
         IN  IF 0 <= fret /\ fret <= MaxFret
             THEN <<i, fret>>
             ELSE ScanStrings(midi_note, i + 1)

\* Mutant: the scan runs from the lowest-pitched string (index 5) upwards.
RECURSIVE ScanStringsFromLow(_, _)
ScanStringsFromLow(midi_note, i) ==
    IF i < 0
    THEN None
    ELSE LET fret == midi_note - GUITAR_TUNING[i + 1]
         IN  IF 0 <= fret /\ fret <= MaxFret
             THEN <<i, fret>>
             ELSE ScanStringsFromLow(midi_note, i - 1)

\* Mutant: open strings are never used (0 < fret instead of 0 <= fret).
RECURSIVE ScanStringsFretted(_, _)
ScanStringsFretted(midi_note, i) ==
    IF i >= Len(GUITAR_TUNING)
    THEN None
    ELSE LET fret == midi_note - GUITAR_TUNING[i + 1]
         IN  IF 0 < fret /\ fret <= MaxFret
             THEN <<i, fret>>
             ELSE ScanStringsFretted(midi_note, i + 1)

note_to_tab_position_NoOpenStrings(midi_note) == ScanStringsFretted(midi_note, 0)

note_to_tab_position_LowStringFirst(midi_note) ==
    ScanStringsFromLow(midi_note, Len(GUITAR_TUNING) - 1)

note_to_tab_position(midi_note) == ScanStrings(midi_note, 0)

---------------------------------------------------------------------------
(* generate_tab_notation: capo estimation (first pass over the notes) *)

spacing == 2

MaxCapoFret == 5

\* all_frets: the fret of every note that resolves, in note order.
RECURSIVE AllFrets(_)
AllFrets(ns) ==
    IF ns = <<>>
    THEN <<>>
    ELSE LET midi_note == pitch_to_midi_note(Head(ns)[2])
             tab_pos == note_to_tab_position(midi_note)
         IN  (IF tab_pos # None THEN <<tab_pos[2]>> ELSE <<>>) \o AllFrets(Tail(ns))

\* fret_counts[fret] = fret_counts.get(fret, 0) + 1 on a dict kept as the sequence
\* of its <<key, value>> items in insertion order.
DictIncrement(items, key) ==
    IF \E k \in 1..Len(items) : items[k][1] = key
    THEN [k \in 1..Len(items) |->
            IF items[k][1] = key THEN <<key, items[k][2] + 1>> ELSE items[k]]
    ELSE Append(items, <<key, 1>>)

\* fret_counts after the loop over the first n entries of all_frets.
RECURSIVE FretCounts(_, _)
FretCounts(all_frets, n) ==
    IF n = 0
    THEN <<>>
    ELSE LET counts == FretCounts(all_frets, n - 1)
             fret == all_frets[n]
         IN  IF fret > 0 THEN DictIncrement(counts, fret) ELSE counts

\* Mutant: among the items of highest count, the last one wins.
MaxByCount_LastWins(items) ==
    LET last == CHOOSE k \in 1..Len(items) :
                    /\ \A j \in 1..Len(items) : items[j][2] <= items[k][2]
                    /\ \A j \in (k + 1)..Len(items) : items[j][2] < items[k][2]
    IN  items[last]

\* max(items, key=lambda x: x[1]): the first item whose count no item exceeds.
MaxByCount(items) ==
    LET first == CHOOSE k \in 1..Len(items) :
                     /\ \A j \in 1..Len(items) : items[j][2] <= items[k][2]
                     /\ \A j \in 1..(k - 1) : items[j][2] < items[k][2]
    IN  items[first]

EstimateCapoFret(ns, capo) ==
    IF ~capo
    THEN 0
    ELSE LET all_frets == AllFrets(ns)
             fret_counts == FretCounts(all_frets, Len(all_frets))
         IN  IF all_frets = <<>> \/ fret_counts = <<>>
             THEN 0
             ELSE LET candidate == MaxByCount(fret_counts)[1]
                  IN  IF 0 < candidate /\ candidate <= MaxCapoFret THEN candidate ELSE 0

---------------------------------------------------------------------------
(* generate_tab_notation: the rendering loop *)

InitialTabLines == [i \in 1..6 |-> <<GUITAR_STRINGS[i], "|">>]

\* Mutant: the pause filler without the "- 1".
ExtraSpaces_NoMinusOne(time, last) == Max(0, IntTrunc((time - last) * 10, 100))

\* extra_spaces = max(0, int(time_diff * 10) - 1), time_diff in centiseconds.
ExtraSpaces(time, last) == Max(0, IntTrunc((time - last) * 10, 100) - 1)

\* Mutant: the fret number is written without its padding.
NoteSlot_NoPadding(i, tab_pos, fingerstyle) ==
    IF i = tab_pos[1]
    THEN str(tab_pos[2])
    ELSE IF fingerstyle \/ ~((i >= 3 /\ tab_pos[1] >= 3) \/ (i < 3 /\ tab_pos[1] < 3))
         THEN Rep("-", spacing)
         ELSE <<"x">> \o Rep("-", spacing - 1)

\* Mutant: the strum marks follow the code's comment ("strings 0-3 ... strings
\* 3-5"), so string 3 belongs to both groups.
NoteSlot_OverlappingHalves(i, tab_pos, fingerstyle) ==
    IF i = tab_pos[1]
    THEN str(tab_pos[2]) \o Rep("-", spacing - Len(str(tab_pos[2])))
    ELSE IF fingerstyle
         THEN Rep("-", spacing)
         ELSE IF (i >= 3 /\ tab_pos[1] >= 3) \/ (i <= 3 /\ tab_pos[1] <= 3)
              THEN <<"x">> \o Rep("-", spacing - 1)
              ELSE Rep("-", spacing)

\* What the note at tab_pos = <<string_idx, fret>> appends to line i (0-based).
NoteSlot(i, tab_pos, fingerstyle) ==
    LET string_idx == tab_pos[1]
        fret == tab_pos[2]
        fret_str == str(fret)
    IN  IF i = string_idx
        THEN fret_str \o Rep("-", spacing - Len(fret_str))
        ELSE IF fingerstyle
             THEN Rep("-", spacing)
             ELSE IF (i >= 3 /\ string_idx >= 3) \/ (i < 3 /\ string_idx < 3)
                  THEN <<"x">> \o Rep("-", spacing - 1)
                  ELSE Rep("-", spacing)

\* Mutant: the capo is chosen and announced but the notes are not transposed.
CapoAdjusted_NotApplied(pitch, capo) == pitch_to_midi_note(pitch)

\* midi_note after the capo adjustment.
CapoAdjusted(pitch, capo) ==
    LET midi_note == pitch_to_midi_note(pitch)
    IN  IF capo > 0 THEN midi_note - capo ELSE midi_note

\* Mutant: a note without a position is skipped instead of being drawn as a rest.
LineAfterNote_RestDropped(line, i, time, pitch, last, capo, fingerstyle) ==
    LET spaced == IF last >= 0 THEN line \o Rep("-", ExtraSpaces(time, last)) ELSE line
        tab_pos == note_to_tab_position(CapoAdjusted(pitch, capo))
    IN  IF tab_pos # None THEN spaced \o NoteSlot(i, tab_pos, fingerstyle) ELSE spaced

\* One iteration of "for time, pitch in notes" on line i (0-based): the filler for
\* the pause, then the slot of the note.
LineAfterNote(line, i, time, pitch, last, capo, fingerstyle) ==
    LET spaced == IF last >= 0 THEN line \o Rep("-", ExtraSpaces(time, last)) ELSE line
        tab_pos == note_to_tab_position(CapoAdjusted(pitch, capo))
    IN  IF tab_pos # None
        THEN spaced \o NoteSlot(i, tab_pos, fingerstyle)
        ELSE spaced \o Rep("-", spacing)

RECURSIVE JoinLines(_)
JoinLines(lines) ==
    IF Len(lines) = 0 THEN <<>>
    ELSE IF Len(lines) = 1 THEN lines[1]
    ELSE lines[1] \o <<"\n">> \o JoinLines(Tail(lines))

\* Mutant: the capo line is written whatever the capo fret.
CapoInfo_Always(capo) == <<"\n", "Capo on fret ">> \o str(capo)

CapoInfo(capo) ==
    IF capo > 0 THEN <<"\n", "Capo on fret ">> \o str(capo) ELSE <<>>

\* Mutant: the style line does not look at is_fingerstyle.
StyleInfo_AlwaysStrumming(fingerstyle) == <<"\n", "Strumming pattern">>

StyleInfo(fingerstyle) ==
    IF fingerstyle THEN <<"\n", "Fingerstyle pattern">> ELSE <<"\n", "Strumming pattern">>

---------------------------------------------------------------------------
(* Exact rationals [num, den], den > 0 *)

Rat(n, d) == [num |-> n, den |-> d]

RatGreater(r, n, d) == r.num * d > n * r.den

RatLess(r, n, d) == r.num * d < n * r.den

RatEquals(r, n, d) == r.num * d = n * r.den

RECURSIVE SumSeq(_)
SumSeq(xs) == IF xs = <<>> THEN 0 ELSE Head(xs) + SumSeq(Tail(xs))

---------------------------------------------------------------------------
(* detect_beat_emphasis *)

BeatToleranceCs == 10

\* beat_times[np.argmin(np.abs(beat_times - onset))]: the first beat at the
\* smallest absolute distance.
ClosestBeat(onset, beat_times) ==
    LET closest_beat_idx ==
            CHOOSE k \in 1..Len(beat_times) :
                /\ \A j \in 1..Len(beat_times) :
                       Abs(beat_times[k] - onset) <= Abs(beat_times[j] - onset)
                /\ \A j \in 1..(k - 1) :
                       Abs(beat_times[j] - onset) > Abs(beat_times[k] - onset)
    IN  beat_times[closest_beat_idx]

OnsetToBeatDistances(onset_times, beat_times) ==
    [k \in 1..Len(onset_times) |-> onset_times[k] - ClosestBeat(onset_times[k], beat_times)]

\* Mutant: an onset exactly 0.1 s from its beat counts as on the beat.
detect_beat_emphasis_Inclusive(onset_times, beat_times) ==
    IF Len(onset_times) = 0 \/ Len(beat_times) = 0
    THEN Rat(0, 1)
    ELSE LET dists == OnsetToBeatDistances(onset_times, beat_times)
             on == Cardinality({k \in 1..Len(dists) : Abs(dists[k]) <= BeatToleranceCs})
         IN  Rat(on - (Len(dists) - on), Len(dists))

detect_beat_emphasis(onset_times, beat_times) ==
    IF Len(onset_times) = 0 \/ Len(beat_times) = 0
    THEN Rat(0, 1)
    ELSE LET onset_to_beat_distances == OnsetToBeatDistances(onset_times, beat_times)
             beats_count ==
                 Cardinality({k \in 1..Len(onset_to_beat_distances) :
                                 Abs(onset_to_beat_distances[k]) < BeatToleranceCs})
             offbeats_count == Len(onset_to_beat_distances) - beats_count
             total == beats_count + offbeats_count
         IN  IF total > 0 THEN Rat(beats_count - offbeats_count, total) ELSE Rat(0, 1)

---------------------------------------------------------------------------
(* analyze_rhythm; tempo and beat_times are what librosa's beat tracker returned *)

\* np.diff(onset_times)
Diff(xs) == [k \in 1..(Len(xs) - 1) |-> xs[k + 1] - xs[k]]

\* The items 4 and 5 of analyze_rhythm for a list of at least two onsets.
\* With k intervals d of sum S: mean = S/k, std^2 = (k*sum(d^2) - S^2)/k^2, so
\* (std/mean)^2 = (k*sum(d^2) - S^2)/S^2.
IoiStatistics(onset_times) ==
    LET iois == Diff(onset_times)
        k == Len(iois)
        S == SumSeq(iois)
        SS == SumSeq([j \in 1..k |-> iois[j] * iois[j]])
    IN  [mean_ioi |-> Rat(S, 100 * k),
         rhythm_consistency |-> IF S > 0 THEN Rat(k * SS - S * S, S * S) ELSE Rat(1, 1)]

\* Mutant: the sentinel for fewer than two onsets is 0.0 (perfectly consistent).
analyze_rhythm_ZeroSentinel(tempo, onset_times, beat_times) ==
    LET stats == IF Len(onset_times) >= 2
                 THEN IoiStatistics(onset_times)
                 ELSE [mean_ioi |-> Rat(0, 1), rhythm_consistency |-> Rat(0, 1)]
    IN  [tempo |-> tempo,
         mean_ioi |-> stats.mean_ioi,
         rhythm_consistency |-> stats.rhythm_consistency,
         beat_emphasis |-> detect_beat_emphasis(onset_times, beat_times),
         onset_count |-> Len(onset_times)]

analyze_rhythm(tempo, onset_times, beat_times) ==
    LET stats == IF Len(onset_times) >= 2
                 THEN IoiStatistics(onset_times)
                 ELSE [mean_ioi |-> Rat(0, 1), rhythm_consistency |-> Rat(1, 1)]
    IN  [tempo |-> tempo,
         mean_ioi |-> stats.mean_ioi,
         rhythm_consistency |-> stats.rhythm_consistency,
         beat_emphasis |-> detect_beat_emphasis(onset_times, beat_times),
         onset_count |-> Len(onset_times)]

---------------------------------------------------------------------------
(* detect_strumming_pattern *)

\* rhythm_consistency > 0.5, on the square of rhythm_consistency.
ConsistencyAboveHalf(sq) == 4 * sq.num > sq.den

\* The consistent-rhythm branch with the given tempo threshold for the waltz.
ConsistentRhythmPattern(tempo, beat_emphasis, waltz_below) ==
    IF RatGreater(beat_emphasis, 7, 10)
    THEN IF tempo < waltz_below
         THEN (IF tempo < 120 THEN STRUMMING_PATTERNS.waltz ELSE STRUMMING_PATTERNS.basic)
         ELSE STRUMMING_PATTERNS.basic
    ELSE IF RatGreater(beat_emphasis, 2, 10) THEN STRUMMING_PATTERNS.country
    ELSE IF RatLess(beat_emphasis, -2, 10) THEN STRUMMING_PATTERNS.reggae
    ELSE STRUMMING_PATTERNS.rock

VariableRhythmPattern(beat_emphasis) ==
    IF RatGreater(beat_emphasis, 3, 10)
    THEN STRUMMING_PATTERNS.ballad
    ELSE STRUMMING_PATTERNS.rock

\* Mutant: the waltz is chosen below 120 bpm, the threshold of the dead inner test.
detect_strumming_pattern_Waltz120(rhythm_features, fingerstyle) ==
    IF fingerstyle THEN FINGERSTYLE_NA
    ELSE IF ConsistencyAboveHalf(rhythm_features.rhythm_consistency)
         THEN VariableRhythmPattern(rhythm_features.beat_emphasis)
         ELSE ConsistentRhythmPattern(rhythm_features.tempo,
                                      rhythm_features.beat_emphasis, 120)

\* Mutant: a consistency of exactly 0.5 already counts as variable rhythm.
detect_strumming_pattern_HalfIsVariable(rhythm_features, fingerstyle) ==
    IF fingerstyle THEN FINGERSTYLE_NA
    ELSE IF 4 * rhythm_features.rhythm_consistency.num >= rhythm_features.rhythm_consistency.den
         THEN VariableRhythmPattern(rhythm_features.beat_emphasis)
         ELSE ConsistentRhythmPattern(rhythm_features.tempo,
                                      rhythm_features.beat_emphasis, 100)

\* Mutant: the fingerstyle test comes after the variable-rhythm branch.
detect_strumming_pattern_FingerstyleLate(rhythm_features, fingerstyle) ==
    IF ConsistencyAboveHalf(rhythm_features.rhythm_consistency)
    THEN VariableRhythmPattern(rhythm_features.beat_emphasis)
    ELSE IF fingerstyle THEN FINGERSTYLE_NA
    ELSE ConsistentRhythmPattern(rhythm_features.tempo, rhythm_features.beat_emphasis, 100)

\* Mutant: only a consistency above 1.0 counts as variable rhythm.
detect_strumming_pattern_VariableAboveOne(rhythm_features, fingerstyle) ==
    IF fingerstyle THEN FINGERSTYLE_NA
    ELSE IF rhythm_features.rhythm_consistency.num > rhythm_features.rhythm_consistency.den
         THEN VariableRhythmPattern(rhythm_features.beat_emphasis)
         ELSE ConsistentRhythmPattern(rhythm_features.tempo,
                                      rhythm_features.beat_emphasis, 100)

detect_strumming_pattern(rhythm_features, fingerstyle) ==
    IF fingerstyle
    THEN FINGERSTYLE_NA
    ELSE LET tempo == rhythm_features.tempo
             rhythm_consistency == rhythm_features.rhythm_consistency
             beat_emphasis == rhythm_features.beat_emphasis
         IN  IF ConsistencyAboveHalf(rhythm_consistency)
             THEN IF RatGreater(beat_emphasis, 3, 10)
                  THEN STRUMMING_PATTERNS.ballad
                  ELSE STRUMMING_PATTERNS.rock
             ELSE IF RatGreater(beat_emphasis, 7, 10)
                  THEN IF tempo < 100
                       THEN (IF tempo < 120 THEN STRUMMING_PATTERNS.waltz
                                            ELSE STRUMMING_PATTERNS.basic)
                       ELSE STRUMMING_PATTERNS.basic
                  ELSE IF RatGreater(beat_emphasis, 2, 10) THEN STRUMMING_PATTERNS.country
                  ELSE IF RatLess(beat_emphasis, -2, 10) THEN STRUMMING_PATTERNS.reggae
                  ELSE STRUMMING_PATTERNS.rock

---------------------------------------------------------------------------
(* generate_tabs_from_youtube: the rhythm features of analyze_audio are what *)
(* detect_strumming_pattern classifies                                     *)

strumming_pattern_of_analysis(tempo, onset_times, beat_times, fingerstyle) ==
    LET rhythm_features == analyze_rhythm(tempo, onset_times, beat_times)
    IN  [rhythm_features |-> rhythm_features,
         strumming_pattern |-> detect_strumming_pattern(rhythm_features, fingerstyle)]

---------------------------------------------------------------------------
(* source_separation.py: SourceSeparation *)

SeparatorModel == "spleeter:4stems"

\* os.path.join(self.temp_dir, "guitar_isolated.wav")
EnhancedPath == "guitar_isolated.wav"

\* The files that exist when the service is called.
ExistingFiles == {"song.mp3"}

\* What a method call does: it returns value or raises value; separator is
\* self.separator afterwards, constructed the Separator(...) calls it made.
Returns(value, sep, made) ==
    [kind |-> "return", value |-> value, separator |-> sep, constructed |-> made]

Raises(value, sep, made) ==
    [kind |-> "raise", value |-> value, separator |-> sep, constructed |-> made]

\* Mutant: the Separator is constructed on every call, stored or not.
initialize_separator_NoReuse(available, sep, ctor_ok) ==
    IF ~available
    THEN Returns(FALSE, sep, <<>>)
    ELSE IF ctor_ok
         THEN Returns(TRUE, [model |-> SeparatorModel],
                      <<[model |-> SeparatorModel, ok |-> TRUE]>>)
         ELSE Raises("Exception", sep, <<[model |-> SeparatorModel, ok |-> FALSE]>>)

\* ctor_ok: whether Separator('spleeter:4stems') succeeds when it is called.
initialize_separator(available, sep, ctor_ok) ==
    IF ~available
    THEN Returns(FALSE, sep, <<>>)
    ELSE IF sep = None
         THEN IF ctor_ok
              THEN Returns(TRUE, [model |-> SeparatorModel],
                           <<[model |-> SeparatorModel, ok |-> TRUE]>>)
              ELSE Raises("Exception", sep, <<[model |-> SeparatorModel, ok |-> FALSE]>>)
         ELSE Returns(TRUE, sep, <<>>)

\* env: what the environment does during the call.  separate_ok: whether
\* separate_to_file returns; stem_exists: whether other.wav is there afterwards;
\* enhance: _enhance_guitar_track exports ("ok"), falls back to a copy that
\* works ("fallback_copy") or to a copy that raises ("copy_fails").
isolate_guitar(available, sep, audio_path, env) ==
    IF ~available
    THEN Returns(audio_path, sep, <<>>)
    ELSE LET init == initialize_separator(available, sep, env.ctor_ok)
         IN  IF init.kind = "raise"
             THEN init
             ELSE IF ~init.value
                  THEN Returns(audio_path, init.separator, init.constructed)
                  ELSE IF audio_path \notin ExistingFiles
                       THEN Raises("FileNotFoundError", init.separator, init.constructed)
                       ELSE IF /\ env.separate_ok
                               /\ env.stem_exists
                               /\ env.enhance # "copy_fails"
                            THEN Returns(EnhancedPath, init.separator, init.constructed)
                            ELSE Returns(audio_path, init.separator, init.constructed)

---------------------------------------------------------------------------
(* analyze_audio: the choice of the file to analyse *)

\* No exception reaches the caller.
NoException == "None"

\* No file was chosen for the analysis.
NoPath == ""

\* Mutant: the separation block has no try/except.
analyze_audio_NoFallback(available, audio_path, use_source_separation, env) ==
    IF ~use_source_separation
    THEN [analysis_path |-> audio_path, raised |-> NoException]
    ELSE IF ~env.mkdtemp_ok
         THEN [analysis_path |-> NoPath, raised |-> "OSError"]
         ELSE LET r == isolate_guitar(available, None, audio_path, env)
              IN  IF r.kind = "raise"
                  THEN [analysis_path |-> NoPath, raised |-> r.value]
                  ELSE [analysis_path |-> r.value, raised |-> NoException]

\* The path analyze_audio hands to librosa.load, and what reaches the caller
\* (NoException, or the exception).  env.mkdtemp_ok: whether SourceSeparation()
\* can be constructed.  Errors of cleanup() are logged, never raised.
analyze_audio(available, audio_path, use_source_separation, env) ==
    LET analysis_path ==
            IF ~use_source_separation
            THEN audio_path
            ELSE IF ~env.mkdtemp_ok
                 THEN audio_path
                 ELSE LET r == isolate_guitar(available, None, audio_path, env)
                      IN  IF r.kind = "raise" THEN audio_path ELSE r.value
    IN  [analysis_path |-> analysis_path, raised |-> NoException]

---------------------------------------------------------------------------
(* Inputs of the model *)

MaxNotes == 3

\* Onset times, centiseconds: gaps of 0 (duplicate), 0.15, 0.35 and 0.5 s.
Times == {0, 15, 50}

\* Pitches, centi-Hz: C2 (MIDI 36, below the instrument), F2 (41), E4 (64),
\* G4 (67), A4 (69), A5 (81).
Pitches == {6541, 8731, 32963, 39200, 44000, 88000}

NoteEvents == Times \X Pitches

\* Note lists in ascending time order, duplicates allowed.
NoteLists ==
    UNION {{ns \in [1..n -> NoteEvents] : \A k \in 1..(n - 1) : ns[k][1] <= ns[k + 1][1]}
           : n \in 0..MaxNotes}

NoCall == [fn |-> "none"]

AudioPaths == {"song.mp3", "missing.mp3"}

SeparationEnvs ==
    [ctor_ok : BOOLEAN, separate_ok : BOOLEAN, stem_exists : BOOLEAN,
     enhance : {"ok", "fallback_copy", "copy_fails"}]

AnalysisEnvs ==
    [mkdtemp_ok : BOOLEAN, ctor_ok : BOOLEAN, separate_ok : BOOLEAN, stem_exists : BOOLEAN,
     enhance : {"ok", "fallback_copy", "copy_fails"}]

\* The most Separator(...) constructions followed on one instance.
MaxConstructions == 3

\* MIDI note numbers handed to the note functions: -MaxNegMidi..MaxMidi.
MaxNegMidi == 3

MaxMidi == 130

MidiNotes == (-MaxNegMidi)..MaxMidi

\* Frequencies in centi-Hz: non-positive values, the two values of the test
\* (440.0 and 261.63), the pitches of the note lists, and the integers on both
\* sides of the quarter-tone boundary above MIDI 0, 21, 40, 59, 60, 69, 88, 108
\* and 127.
PitchInputs ==
    {-44000, -1, 0, 1, 2, 100, 841, 842, 2830, 2831, 8482, 8483, 25417, 25418,
     26163, 26929, 26930, 44000, 45289, 45290, 135714, 135715, 430866, 430867,
     1291141, 1291142, 1999999} \cup Pitches

\* Tempo estimates, beats per minute.
Tempos == {90, 99, 100, 110, 119, 120, 140}

\* rhythm_consistency and beat_emphasis values, in hundredths.
ConsistencyHundredths == {0, 20, 30, 50, 51, 70, 100}

EmphasisHundredths == {-100, -50, -21, -20, 0, 20, 21, 30, 31, 40, 70, 71, 80, 100}

RhythmFeatures ==
    {[tempo |-> t, rhythm_consistency |-> Rat(c * c, 10000), beat_emphasis |-> Rat(e, 100)] :
        t \in Tempos, c \in ConsistencyHundredths, e \in EmphasisHundredths}

MaxOnsets == 3

MaxBeats == 2

\* Onset and beat times, centiseconds.
OnsetTimes == {95, 110, 150, 205}

BeatTimes == {100, 200}

\* Onset lists in ascending order, duplicates allowed.
OnsetLists ==
    UNION {{os \in [1..n -> OnsetTimes] : \A k \in 1..(n - 1) : os[k] <= os[k + 1]}
           : n \in 0..MaxOnsets}

\* Beat grids in strictly ascending order.
BeatLists ==
    UNION {{bs \in [1..n -> BeatTimes] : \A k \in 1..(n - 1) : bs[k] < bs[k + 1]}
           : n \in 0..MaxBeats}

---------------------------------------------------------------------------
(* generate_tab_notation as a state machine *)

\* Entry: the arguments are bound and tab_lines is initialised.
Call_generate_tab_notation ==
    /\ pc = "idle"
    /\ \E ns \in NoteLists, capo \in BOOLEAN, fingerstyle \in BOOLEAN :
           /\ notes' = ns
           /\ use_capo' = capo
           /\ is_fingerstyle' = fingerstyle
    /\ tab_lines' = InitialTabLines
    /\ capo_fret' = 0
    /\ pc' = "capo"
    /\ UNCHANGED <<last_time, idx, result, call, sepVars>>

\* "Determine if we need capo and at which fret", then the loop's initialisation.
EstimateCapo ==
    /\ pc = "capo"
    /\ capo_fret' = EstimateCapoFret(notes, use_capo)
    /\ last_time' = -1
    /\ idx' = 0
    /\ pc' = "loop"
    /\ UNCHANGED <<notes, use_capo, is_fingerstyle, tab_lines, result, call, sepVars>>

\* One iteration of the for loop over notes.
RenderNote ==
    /\ pc = "loop"
    /\ idx < Len(notes)
    /\ LET time == notes[idx + 1][1]
           pitch == notes[idx + 1][2]
       IN  /\ tab_lines' = [i \in 1..6 |->
                  LineAfterNote(tab_lines[i], i - 1, time, pitch, last_time,
                                capo_fret, is_fingerstyle)]
           /\ last_time' = time
    /\ idx' = idx + 1
    /\ UNCHANGED <<notes, use_capo, is_fingerstyle, pc, capo_fret, result, call, sepVars>>

\* "Finalize the tab" and return.
Finalize ==
    /\ pc = "loop"
    /\ idx = Len(notes)
    /\ tab_lines' = [i \in 1..6 |-> tab_lines[i] \o <<"|">>]
    /\ result' = JoinLines(tab_lines') \o CapoInfo(capo_fret) \o StyleInfo(is_fingerstyle)
    /\ pc' = "done"
    /\ UNCHANGED <<notes, use_capo, is_fingerstyle, capo_fret, last_time, idx, call, sepVars>>

---------------------------------------------------------------------------
(* The pure functions, applied to one input at a time *)

Call_note_to_tab_position ==
    /\ call.fn = "none"
    /\ \E midi_note \in MidiNotes :
           call' = [fn |-> "note_to_tab_position", args |-> midi_note,
                    ret |-> note_to_tab_position(midi_note)]
    /\ UNCHANGED <<tabVars, sepVars>>

Call_pitch_to_midi_note ==
    /\ call.fn = "none"
    /\ \E pitch \in PitchInputs :
           call' = [fn |-> "pitch_to_midi_note", args |-> pitch,
                    ret |-> pitch_to_midi_note(pitch)]
    /\ UNCHANGED <<tabVars, sepVars>>

Call_midi_to_note_name ==
    /\ call.fn = "none"
    /\ \E midi_note \in MidiNotes :
           call' = [fn |-> "midi_to_note_name", args |-> midi_note,
                    ret |-> midi_to_note_name(midi_note)]
    /\ UNCHANGED <<tabVars, sepVars>>

Call_detect_strumming_pattern ==
    /\ call.fn = "none"
    /\ \E rhythm_features \in RhythmFeatures, fingerstyle \in BOOLEAN :
           call' = [fn |-> "detect_strumming_pattern",
                    args |-> [rhythm_features |-> rhythm_features,
                              is_fingerstyle |-> fingerstyle],
                    ret |-> detect_strumming_pattern(rhythm_features, fingerstyle)]
    /\ UNCHANGED <<tabVars, sepVars>>

Call_detect_beat_emphasis ==
    /\ call.fn = "none"
    /\ \E onset_times \in OnsetLists, beat_times \in BeatLists :
           call' = [fn |-> "detect_beat_emphasis",
                    args |-> [onset_times |-> onset_times, beat_times |-> beat_times],
                    ret |-> detect_beat_emphasis(onset_times, beat_times)]
    /\ UNCHANGED <<tabVars, sepVars>>

Call_analyze_rhythm ==
    /\ call.fn = "none"
    /\ \E tempo \in Tempos, onset_times \in OnsetLists, beat_times \in BeatLists :
           call' = [fn |-> "analyze_rhythm",
                    args |-> [tempo |-> tempo, onset_times |-> onset_times,
                              beat_times |-> beat_times],
                    ret |-> analyze_rhythm(tempo, onset_times, beat_times)]
    /\ UNCHANGED <<tabVars, sepVars>>

Call_strumming_pattern_of_analysis ==
    /\ call.fn = "none"
    /\ \E tempo \in Tempos, onset_times \in OnsetLists, beat_times \in BeatLists,
          fingerstyle \in BOOLEAN :
           call' = [fn |-> "strumming_pattern_of_analysis",
                    args |-> [tempo |-> tempo, onset_times |-> onset_times,
                              beat_times |-> beat_times, is_fingerstyle |-> fingerstyle],
                    ret |-> strumming_pattern_of_analysis(tempo, onset_times, beat_times,
                                                          fingerstyle)]
    /\ UNCHANGED <<tabVars, sepVars>>

\* The function returns; the next call starts from scratch (no state is kept).
Return ==
    /\ call.fn # "none"
    /\ call' = NoCall
    /\ UNCHANGED <<tabVars, sepVars>>

---------------------------------------------------------------------------
(* Source separation: the import, one service instance, analyze_audio *)

\* "from spleeter.separator import Separator" succeeds or raises ImportError.
ImportSpleeter ==
    /\ sep_pc = "import"
    /\ \E imported \in BOOLEAN : SPLEETER_AVAILABLE' = imported
    /\ sep_pc' = "no_instance"
    /\ UNCHANGED <<tabVars, call, separator, separator_calls, sep_call>>

\* SourceSeparation.__init__
New_SourceSeparation ==
    /\ sep_pc = "no_instance"
    /\ separator' = None
    /\ separator_calls' = <<>>
    /\ sep_pc' = "ready"
    /\ UNCHANGED <<tabVars, call, SPLEETER_AVAILABLE, sep_call>>

Call_initialize_separator ==
    /\ sep_pc = "ready"
    /\ sep_call.fn = "none"
    /\ separator # None \/ Len(separator_calls) < MaxConstructions
    /\ \E ctor_ok \in BOOLEAN :
           LET r == initialize_separator(SPLEETER_AVAILABLE, separator, ctor_ok)
           IN  /\ separator' = r.separator
               /\ separator_calls' = separator_calls \o r.constructed
               /\ sep_call' = [fn |-> "initialize_separator",
                               args |-> [separator |-> separator, ctor_ok |-> ctor_ok],
                               ret |-> r]
    /\ UNCHANGED <<tabVars, call, SPLEETER_AVAILABLE, sep_pc>>

Call_isolate_guitar ==
    /\ sep_pc = "ready"
    /\ sep_call.fn = "none"
    /\ separator # None \/ Len(separator_calls) < MaxConstructions
    /\ \E audio_path \in AudioPaths, env \in SeparationEnvs :
           LET r == isolate_guitar(SPLEETER_AVAILABLE, separator, audio_path, env)
           IN  /\ separator' = r.separator
               /\ separator_calls' = separator_calls \o r.constructed
               /\ sep_call' = [fn |-> "isolate_guitar",
                               args |-> [separator |-> separator, audio_path |-> audio_path,
                                         env |-> env],
                               ret |-> r]
    /\ UNCHANGED <<tabVars, call, SPLEETER_AVAILABLE, sep_pc>>

\* analyze_audio makes its own SourceSeparation instance and drops it.
Call_analyze_audio ==
    /\ sep_pc # "import"
    /\ sep_call.fn = "none"
    /\ \E audio_path \in AudioPaths, use_source_separation \in BOOLEAN, env \in AnalysisEnvs :
           sep_call' = [fn |-> "analyze_audio",
                        args |-> [audio_path |-> audio_path,
                                  use_source_separation |-> use_source_separation,
                                  env |-> env],
                        ret |-> analyze_audio(SPLEETER_AVAILABLE, audio_path,
                                              use_source_separation, env)]
    /\ UNCHANGED <<tabVars, call, SPLEETER_AVAILABLE, separator, separator_calls, sep_pc>>

SepReturn ==
    /\ sep_call.fn # "none"
    /\ sep_call' = NoCall
    /\ UNCHANGED <<tabVars, call, SPLEETER_AVAILABLE, separator, separator_calls, sep_pc>>

---------------------------------------------------------------------------
(* Specifications *)

Init ==
    /\ notes = <<>>
    /\ use_capo = FALSE
    /\ is_fingerstyle = FALSE
    /\ pc = "idle"
    /\ capo_fret = 0
    /\ tab_lines = InitialTabLines
    /\ last_time = -1
    /\ idx = 0
    /\ result = <<>>
    /\ call = NoCall
    /\ SPLEETER_AVAILABLE = FALSE
    /\ separator = None
    /\ separator_calls = <<>>
    /\ sep_pc = "import"
    /\ sep_call = NoCall

Next ==
    \/ Call_generate_tab_notation
    \/ EstimateCapo
    \/ RenderNote
    \/ Finalize

\* generate_tab_notation, one call from entry to return.
Spec == Init /\ [][Next]_vars

NextFn ==
    \/ Call_pitch_to_midi_note
    \/ Call_note_to_tab_position
    \/ Call_midi_to_note_name
    \/ Call_detect_strumming_pattern
    \/ Call_detect_beat_emphasis
    \/ Call_analyze_rhythm
    \/ Call_strumming_pattern_of_analysis
    \/ Return

\* The pure functions of the module, each applied to every input of its set.
SpecFn == Init /\ [][NextFn]_vars

NextSep ==
    \/ ImportSpleeter
    \/ New_SourceSeparation
    \/ Call_initialize_separator
    \/ Call_isolate_guitar
    \/ Call_analyze_audio
    \/ SepReturn

\* The source separation service: its import, one instance, and analyze_audio.
SpecSep == Init /\ [][NextSep]_vars

---------------------------------------------------------------------------
(* Properties of generate_tab_notation *)

\* The position the renderer resolves note k to: on the capo-adjusted MIDI value.
RenderedPos(k) == note_to_tab_position(CapoAdjusted(notes[k][2], capo_fret))

\* The position of note k without a capo.
OpenPos(k) == note_to_tab_position(pitch_to_midi_note(notes[k][2]))

\* The filler the specification prescribes before note k:
\* max(0, floor(10 * (time - lastTime)) - 1), none before the first note.
Filler(k) ==
    IF k = 1 THEN 0 ELSE Max(0, ((notes[k][1] - notes[k - 1][1]) \div 10) - 1)

RECURSIVE FillerSum(_)
FillerSum(k) == IF k = 0 THEN 0 ELSE FillerSum(k - 1) + Filler(k)

\* C1: after each note has been fully processed, all six string lines have the
\* same length, whatever the notes, use_capo and is_fingerstyle.
C1_LinesEqualLength ==
    pc \in {"capo", "loop", "done"} =>
        \A i, j \in 1..6 : Len(tab_lines[i]) = Len(tab_lines[j])

\* C1 witness: the loop has processed an unplayable note and a note at a
\* two-digit fret.
C1_Witness ==
    /\ pc = "loop"
    /\ \E k, l \in 1..idx :
           /\ RenderedPos(k) = None
           /\ RenderedPos(l) # None
           /\ RenderedPos(l)[2] >= 10

\* C2: no note is dropped.  After k notes every line is the 2-character label,
\* then for each note its filler (all "-") and a slot of exactly spacing = 2
\* characters; the finished line has length 2 + 2n + sum of fillers + 1.
C2_OneSlotPerNote ==
    pc \in {"loop", "done"} =>
        \A i \in 1..6 :
            /\ Len(tab_lines[i]) =
                   2 + 2 * idx + FillerSum(idx) + (IF pc = "done" THEN 1 ELSE 0)
            /\ \A k \in 1..idx :
                   \A c \in 1..Filler(k) :
                       tab_lines[i][2 + 2 * (k - 1) + FillerSum(k - 1) + c] = "-"
            /\ pc = "done" =>
                   /\ idx = Len(notes)
                   /\ Len(tab_lines[i]) = 2 + 2 * Len(notes) + FillerSum(Len(notes)) + 1

\* C2 witness: a finished three-note diagram with a duplicate timestamp, a pause
\* long enough for filler, and an unplayable note.
C2_Witness ==
    /\ pc = "done"
    /\ Len(notes) >= 3
    /\ \E k \in 2..Len(notes) : notes[k][1] = notes[k - 1][1]
    /\ \E k \in 2..Len(notes) : Filler(k) > 0
    /\ \E k \in 1..Len(notes) : RenderedPos(k) = None

\* The un-capo'd fret of every note, 0 for an open string or an unplayable note.
UncapoedFrets ==
    [k \in 1..Len(notes) |-> IF OpenPos(k) = None THEN 0 ELSE OpenPos(k)[2]]

NonOpenFrets(frets) == {frets[k] : k \in 1..Len(frets)} \ {0}

FretCount(frets, f) == Cardinality({k \in 1..Len(frets) : frets[k] = f})

FirstSeen(frets, f) ==
    CHOOSE k \in 1..Len(frets) : frets[k] = f /\ \A j \in 1..(k - 1) : frets[j] # f

\* The most frequent non-open fret, ties going to the fret seen first.
MostFrequentFret(frets) ==
    CHOOSE f \in NonOpenFrets(frets) :
        \A h \in NonOpenFrets(frets) \ {f} :
            \/ FretCount(frets, h) < FretCount(frets, f)
            \/ /\ FretCount(frets, h) = FretCount(frets, f)
               /\ FirstSeen(frets, f) < FirstSeen(frets, h)

\* C4: the capo fret is always in 0..5; it is 0 without use_capo, without any
\* non-open fret, or when the most frequent non-open fret is outside 1..5, and
\* otherwise it is the most frequent non-open fret (first seen wins a tie).
C4_CapoFret ==
    /\ capo_fret \in 0..5
    /\ pc \in {"loop", "done"} =>
           LET frets == UncapoedFrets
           IN  capo_fret = IF ~use_capo \/ NonOpenFrets(frets) = {} THEN 0
                           ELSE IF MostFrequentFret(frets) \in 1..5
                                THEN MostFrequentFret(frets)
                                ELSE 0

\* C4 witness: a capo was chosen among two equally frequent non-open frets.
C4_Witness ==
    /\ pc = "loop"
    /\ use_capo
    /\ capo_fret > 0
    /\ LET frets == UncapoedFrets
       IN  \E f, h \in NonOpenFrets(frets) :
               /\ f # h
               /\ FretCount(frets, f) = FretCount(frets, h)
               /\ \A e \in NonOpenFrets(frets) : FretCount(frets, e) <= FretCount(frets, f)

---------------------------------------------------------------------------
(* Properties of the rendered slots *)

\* The number of characters of a line once idx notes have been processed.
ExpectedLength == 2 + 2 * idx + FillerSum(idx) + (IF pc = "done" THEN 1 ELSE 0)

LinesHaveExpectedLength == \A i \in 1..6 : Len(tab_lines[i]) = ExpectedLength

\* The two characters note k wrote on line i (0-based).
Slot(i, k) ==
    LET start == 2 + 2 * (k - 1) + FillerSum(k)
    IN  <<tab_lines[i + 1][start + 1], tab_lines[i + 1][start + 2]>>

Rest == <<"-", "-">>

IsDigit(c) == \E d \in 1..10 : Digits[d] = c

DigitValue(c) == (CHOOSE d \in 1..10 : Digits[d] = c) - 1

\* The fret number a slot shows: one digit and a "-", or two digits.
ShownFret(slot) ==
    IF slot[2] = "-" THEN DigitValue(slot[1])
    ELSE 10 * DigitValue(slot[1]) + DigitValue(slot[2])

\* A fret number padded with "-" to two characters.
PaddedFret(f) ==
    IF f < 10 THEN <<Digits[f + 1], "-">> ELSE <<Digits[(f \div 10) + 1], Digits[(f % 10) + 1]>>

\* Both strings in 0..2 or both in 3..5.
SameHalf(i, s) == (i \in 0..2 /\ s \in 0..2) \/ (i \in 3..5 /\ s \in 3..5)

C12_UnplayableIsRest ==
    pc \in {"loop", "done"} =>
        /\ LinesHaveExpectedLength
        /\ \A k \in 1..idx :
               RenderedPos(k) = None => \A i \in 0..5 : Slot(i, k) = Rest
        /\ idx >= 1 => last_time = notes[idx][1]
        /\ pc = "done" => idx = Len(notes)

\* C12 witness: a finished diagram in which an unplayable note is followed,
\* after a pause that needs filler, by a resolved note.
C12_Witness ==
    /\ pc = "done"
    /\ \E k \in 1..(Len(notes) - 1) :
           /\ RenderedPos(k) = None
           /\ Filler(k + 1) > 0
           /\ RenderedPos(k + 1) # None

EmptyDiagram(style) ==
    <<"E", "|", "|", "\n", "B", "|", "|", "\n", "G", "|", "|", "\n",
      "D", "|", "|", "\n", "A", "|", "|", "\n", "E", "|", "|", "\n", style>>

\* C13: for an empty note sequence the function returns six string lines with no
\* note content, each terminated by "|", no capo line, and the style line.
C13_EmptyNotes ==
    (pc = "done" /\ notes = <<>>) =>
        /\ \A i \in 1..6 : tab_lines[i] = <<GUITAR_STRINGS[i], "|", "|">>
        /\ result = EmptyDiagram(IF is_fingerstyle THEN "Fingerstyle pattern"
                                                    ELSE "Strumming pattern")

\* C13 witness: an empty note list was rendered with use_capo and is_fingerstyle.
C13_Witness ==
    /\ pc = "done"
    /\ notes = <<>>
    /\ use_capo
    /\ is_fingerstyle
    /\ Len(result) = 25

\* The lines of a text: the pieces between its "\n" characters.
RECURSIVE SplitLines(_, _)
SplitLines(text, current) ==
    IF text = <<>> THEN <<current>>
    ELSE IF Head(text) = "\n" THEN <<current>> \o SplitLines(Tail(text), <<>>)
    ELSE SplitLines(Tail(text), Append(current, Head(text)))

\* C14: the output is six lines that start with E|, B|, G|, D|, A|, E| in that
\* order and end with "|", then a "Capo on fret N" line iff the capo fret N is
\* > 0, then exactly one style line: "Fingerstyle pattern" if is_fingerstyle,
\* "Strumming pattern" otherwise.
C14_OutputLayout ==
    pc = "done" =>
        LET lines == SplitLines(result, <<>>)
            n == Len(lines)
        IN  /\ n = (IF capo_fret > 0 THEN 8 ELSE 7)
            /\ \A i \in 1..6 :
                   /\ Len(lines[i]) >= 3
                   /\ lines[i][1] = <<"E", "B", "G", "D", "A", "E">>[i]
                   /\ lines[i][2] = "|"
                   /\ lines[i][Len(lines[i])] = "|"
                   /\ lines[i] = tab_lines[i]
            /\ capo_fret > 0 =>
                   /\ Len(lines[7]) = 2
                   /\ lines[7][1] = "Capo on fret "
                   /\ lines[7][2] = Digits[capo_fret + 1]
            /\ lines[n] = <<IF is_fingerstyle THEN "Fingerstyle pattern"
                                               ELSE "Strumming pattern">>
            /\ \A i \in 1..(n - 1) :
                   \A c \in 1..Len(lines[i]) :
                       lines[i][c] \notin {"Fingerstyle pattern", "Strumming pattern"}

\* C14 witness: a finished fingerstyle diagram with a capo line.
C14_Witness ==
    /\ pc = "done"
    /\ capo_fret > 0
    /\ is_fingerstyle
    /\ Len(notes) >= 2

\* The lowest string index that can sound MIDI note m within frets 0..24.
LowestPlayableString(m) ==
    CHOOSE s \in 0..5 :
        /\ 0 <= m - GUITAR_TUNING[s + 1] /\ m - GUITAR_TUNING[s + 1] <= 24
        /\ \A i \in 0..(s - 1) :
               ~(0 <= m - GUITAR_TUNING[i + 1] /\ m - GUITAR_TUNING[i + 1] <= 24)

\* C18: with a capo fret c > 0 every note of MIDI value m is rendered at the
\* position of m - c: a rest exactly when m - c is outside 40..88 (so a note
\* with 40 <= m < 40 + c is a rest), otherwise fret f on string s with
\* tuning[s] + f = m - c; a note that was at fret c on string s without the capo
\* is fret 0 on string s.
C18_CapoTransposes ==
    (pc \in {"loop", "done"} /\ capo_fret > 0) =>
        /\ LinesHaveExpectedLength
        /\ \A k \in 1..idx :
               LET m == pitch_to_midi_note(notes[k][2])
                   t == m - capo_fret
                   rest == \A i \in 0..5 : Slot(i, k) = Rest
                   open == note_to_tab_position(m)
               IN  /\ rest <=> (t < 40 \/ t > 88)
                   /\ (40 <= m /\ m < 40 + capo_fret) => rest
                   /\ ~rest =>
                          LET s == LowestPlayableString(t)
                          IN  /\ IsDigit(Slot(s, k)[1])
                              /\ GUITAR_TUNING[s + 1] + ShownFret(Slot(s, k)) = t
                              /\ \A i \in (0..5) \ {s} : ~IsDigit(Slot(i, k)[1])
                   /\ (open # None /\ open[2] = capo_fret) =>
                          Slot(open[1], k) = <<"0", "-">>

\* C18 witness: under a capo, a note playable without it became a rest and a
\* note at the capo fret became an open string.
C18_Witness ==
    /\ pc = "loop"
    /\ capo_fret > 0
    /\ \E k, l \in 1..idx :
           /\ 40 <= pitch_to_midi_note(notes[k][2])
           /\ pitch_to_midi_note(notes[k][2]) < 40 + capo_fret
           /\ Slot(0, k) = Rest
           /\ OpenPos(l) # None
           /\ OpenPos(l)[2] = capo_fret
           /\ Slot(OpenPos(l)[1], l) = <<"0", "-">>

---------------------------------------------------------------------------
(* Properties of the pure functions *)

\* String s (0-based) can sound MIDI note m at a fret in 0..24.
Playable(m, s) == 0 <= m - GUITAR_TUNING[s + 1] /\ m - GUITAR_TUNING[s + 1] <= 24

\* C3: note_to_tab_position(m) is (s, f) with s the lowest string index that can
\* sound m within frets 0..24 and f = m - tuning[s]; it is None exactly when no
\* string can, that is when m < 40 or m > 88; 40 -> (5,0), 50 -> (3,0), 35 -> None.
C3_TabPosition ==
    call.fn = "note_to_tab_position" =>
        LET m == call.args
            ret == call.ret
        IN  /\ (ret = None) <=> (\A s \in 0..5 : ~Playable(m, s))
            /\ (ret = None) <=> (m < 40 \/ m > 88)
            /\ ret # None =>
                   /\ Len(ret) = 2
                   /\ ret[1] \in 0..5
                   /\ Playable(m, ret[1])
                   /\ \A s \in 0..(ret[1] - 1) : ~Playable(m, s)
                   /\ ret[2] = m - GUITAR_TUNING[ret[1] + 1]
                   /\ GUITAR_TUNING[ret[1] + 1] + ret[2] = m
                   /\ 0 <= ret[2] /\ ret[2] <= 24
            /\ m = 40 => ret = <<5, 0>>
            /\ m = 50 => ret = <<3, 0>>
            /\ m = 35 => ret = None

\* C3 witness: a note that several strings can sound was resolved.
C3_Witness ==
    /\ call.fn = "note_to_tab_position"
    /\ call.ret # None
    /\ Cardinality({s \in 0..5 : Playable(call.args, s)}) >= 3

\* The frets at which the strings can sound MIDI note m.
LegalFrets(m) == {m - GUITAR_TUNING[i + 1] : i \in {j \in 0..5 : Playable(m, j)}}

\* C20: the first-match scan yields the globally lowest legal fret: the fret of
\* a result (s, f) is the minimum of m - tuning[i] over the strings that can
\* sound m; so strings 1..5 only receive frets 0..4 (string 2 only 0..3) and
\* every fret >= 5 is on string 0.
C20_LowestFret ==
    (call.fn = "note_to_tab_position" /\ call.ret # None) =>
        LET m == call.args
            s == call.ret[1]
            f == call.ret[2]
        IN  /\ f \in LegalFrets(m)
            /\ \A g \in LegalFrets(m) : f <= g
            /\ s \in 1..5 => f \in 0..4
            /\ s = 2 => f \in 0..3
            /\ f >= 5 => s = 0

\* C20 witness: a note resolved at a two-digit fret that lower strings could
\* also sound, at higher frets.
C20_Witness ==
    /\ call.fn = "note_to_tab_position"
    /\ call.ret # None
    /\ call.ret[2] >= 10
    /\ Cardinality(LegalFrets(call.args)) >= 3

\* Exact natural numbers as sequences of base-1000 digits, least significant
\* first, without leading zeros.
RECURSIVE BigDigits(_)
BigDigits(n) == IF n = 0 THEN <<>> ELSE <<n % 1000>> \o BigDigits(n \div 1000)

\* Digits lo..hi of a * k + carry and the carry out of digit hi, by halving.
RECURSIVE BigTimesRange(_, _, _, _, _)
BigTimesRange(a, k, lo, hi, carry) ==
    IF lo = hi
    THEN LET v == a[lo] * k + carry
         IN  [digits |-> <<v % 1000>>, carry |-> v \div 1000]
    ELSE LET mid == (lo + hi) \div 2
             low == BigTimesRange(a, k, lo, mid, carry)
             high == BigTimesRange(a, k, mid + 1, hi, low.carry)
         IN  [digits |-> low.digits \o high.digits, carry |-> high.carry]

\* a * k + carry, for a # 0 and 0 < k <= 2000000
BigTimes(a, k, carry) ==
    LET r == BigTimesRange(a, k, 1, Len(a), carry)
    IN  r.digits \o BigDigits(r.carry)

\* a * k^e
RECURSIVE BigTimesPower(_, _, _)
BigTimesPower(a, k, e) ==
    IF e = 0 THEN a
    ELSE LET b == BigTimes(a, k, 0)
         IN  IF Len(b) > 0 THEN BigTimesPower(b, k, e - 1) ELSE <<>>

BigLess(a, b) ==
    IF Len(a) # Len(b) THEN Len(a) < Len(b)
    ELSE \E i \in 1..Len(a) : a[i] < b[i] /\ \A j \in (i + 1)..Len(a) : a[j] = b[j]

\* a * 2^e, twenty doublings at a time
BigTimesPowerOfTwo(a, e) ==
    BigTimesPower(BigTimesPower(a, 1048576, e \div 20), 2, e % 20)

\* x * 2^d < y * 2^e for naturals x, y and integers d, e
LessScaled(x, d, y, e) ==
    IF e >= d THEN BigLess(x, BigTimesPowerOfTwo(y, e - d))
    ELSE BigLess(BigTimesPowerOfTwo(x, d - e), y)

\* n = round(69 + 12 * log2(freq / 440)) for freq in centi-Hz:
\* n - 69 - 1/2 < 12 * log2(freq / 44000) < n - 69 + 1/2, that is
\* 2^(2(n-69)-1) * 44000^24 < freq^24 < 2^(2(n-69)+1) * 44000^24.
\* (12 * log2 of a rational is never an odd multiple of 1/2, so no ties.)
IsRoundedMidi(freq, n) ==
    LET F == BigTimesPower(<<1>>, freq, 24)
        R == BigTimesPower(<<1>>, 44000, 24)
    IN  /\ LessScaled(R, 2 * (n - 69) - 1, F, 0)
        /\ LessScaled(F, 0, R, 2 * (n - 69) + 1)

\* C17: pitch_to_midi_note returns 0 for every frequency <= 0 and otherwise
\* round(69 + 12*log2(freq/440)); 440.0 maps to 69 and 261.63 maps to 60.
C17_PitchToMidi ==
    call.fn = "pitch_to_midi_note" =>
        /\ call.args <= 0 => call.ret = 0
        /\ call.args > 0 => IsRoundedMidi(call.args, call.ret)
        /\ call.args = 44000 => call.ret = 69
        /\ call.args = 26163 => call.ret = 60

\* C17 witness: a frequency just above a quarter-tone boundary was converted to
\* the upper semitone.
C17_Witness ==
    /\ call.fn = "pitch_to_midi_note"
    /\ call.args = 45290
    /\ call.ret = 70

\* A detect_strumming_pattern call in the consistent-rhythm regime (fingerstyle
\* off, rhythm_consistency <= 0.5) with beat_emphasis > 0.7.
StrongDownbeatCall ==
    /\ call.fn = "detect_strumming_pattern"
    /\ ~call.args.is_fingerstyle
    /\ ~ConsistencyAboveHalf(call.args.rhythm_features.rhythm_consistency)
    /\ RatGreater(call.args.rhythm_features.beat_emphasis, 7, 10)

\* C5 as stated: in that regime the result is WALTZ iff tempo < 120, else BASIC.
C5_WaltzBelow120 ==
    StrongDownbeatCall =>
        call.ret = IF call.args.rhythm_features.tempo < 120
                   THEN STRUMMING_PATTERNS.waltz
                   ELSE STRUMMING_PATTERNS.basic

\* C5 amended: in that regime the result is WALTZ iff tempo < 100, else BASIC.
C5_WaltzBelow100 ==
    StrongDownbeatCall =>
        call.ret = IF call.args.rhythm_features.tempo < 100
                   THEN STRUMMING_PATTERNS.waltz
                   ELSE STRUMMING_PATTERNS.basic

\* C5 witness: a tempo between 100 and 120 in that regime gave BASIC.
C5_Witness ==
    /\ StrongDownbeatCall
    /\ call.args.rhythm_features.tempo >= 100
    /\ call.args.rhythm_features.tempo < 120
    /\ call.ret = STRUMMING_PATTERNS.basic

\* C6: midi_to_note_name(60) is "C4", midi_to_note_name(69) is "A4", and the
\* result is the empty string for every m <= 0.
C6_NoteNames ==
    call.fn = "midi_to_note_name" =>
        /\ call.args = 60 => call.ret = <<"C", "4">>
        /\ call.args = 69 => call.ret = <<"A", "4">>
        /\ call.args <= 0 => call.ret = <<>>

SixPatterns ==
    {STRUMMING_PATTERNS.basic, STRUMMING_PATTERNS.country, STRUMMING_PATTERNS.rock,
     STRUMMING_PATTERNS.reggae, STRUMMING_PATTERNS.waltz, STRUMMING_PATTERNS.ballad}

\* C7: for every non-fingerstyle input the result is one of the six pattern
\* descriptions; consistency > 0.5 gives BALLAD when emphasis > 0.3 and ROCK
\* otherwise; consistency <= 0.5 with emphasis <= 0.7 gives COUNTRY when
\* emphasis > 0.2, REGGAE when emphasis < -0.2 and ROCK otherwise.
C7_DecisionTree ==
    (call.fn = "detect_strumming_pattern" /\ ~call.args.is_fingerstyle) =>
        LET c == call.args.rhythm_features.rhythm_consistency
            e == call.args.rhythm_features.beat_emphasis
        IN  /\ call.ret \in SixPatterns
            /\ (c.num * 4 > c.den /\ e.num * 10 > 3 * e.den)
                   => call.ret = STRUMMING_PATTERNS.ballad
            /\ (c.num * 4 > c.den /\ e.num * 10 <= 3 * e.den)
                   => call.ret = STRUMMING_PATTERNS.rock
            /\ (c.num * 4 <= c.den /\ e.num * 10 <= 7 * e.den /\ e.num * 10 > 2 * e.den)
                   => call.ret = STRUMMING_PATTERNS.country
            /\ (c.num * 4 <= c.den /\ e.num * 10 < -2 * e.den)
                   => call.ret = STRUMMING_PATTERNS.reggae
            /\ (c.num * 4 <= c.den /\ e.num * 10 <= 2 * e.den /\ e.num * 10 >= -2 * e.den)
                   => call.ret = STRUMMING_PATTERNS.rock

\* C7 witness: a consistency of exactly 0.5 with an emphasis of exactly 0.7 was
\* classified (COUNTRY: both comparisons are strict).
C7_Witness ==
    /\ call.fn = "detect_strumming_pattern"
    /\ ~call.args.is_fingerstyle
    /\ RatEquals(call.args.rhythm_features.rhythm_consistency, 1, 4)
    /\ RatEquals(call.args.rhythm_features.beat_emphasis, 7, 10)
    /\ call.ret = STRUMMING_PATTERNS.country

\* C8: with is_fingerstyle the result is "N/A (Fingerstyle)" whatever the tempo,
\* rhythm_consistency and beat_emphasis.
C8_Fingerstyle ==
    (call.fn = "detect_strumming_pattern" /\ call.args.is_fingerstyle) =>
        call.ret = "N/A (Fingerstyle)"

\* C8 witness: a fingerstyle call whose rhythm features are those of a variable
\* rhythm with strong downbeats.
C8_Witness ==
    /\ call.fn = "detect_strumming_pattern"
    /\ call.args.is_fingerstyle
    /\ ConsistencyAboveHalf(call.args.rhythm_features.rhythm_consistency)
    /\ RatGreater(call.args.rhythm_features.beat_emphasis, 7, 10)
    /\ call.ret = FINGERSTYLE_NA

\* An onset is on the beat iff some beat is strictly less than 0.1 s away (the
\* nearest beat then is).
OnBeat(onset, beat_times) ==
    \E k \in 1..Len(beat_times) :
        onset - beat_times[k] < 10 /\ beat_times[k] - onset < 10

OnBeatCount(onset_times, beat_times) ==
    Cardinality({k \in 1..Len(onset_times) : OnBeat(onset_times[k], beat_times)})

\* C9: detect_beat_emphasis is 0.0 for an empty onset or beat sequence, otherwise
\* (onBeat - offBeat) / totalOnsets; it is in [-1, 1], 1 when every onset is on
\* the beat, -1 when none is, 0 when as many are on as off.
C9_BeatEmphasis ==
    call.fn = "detect_beat_emphasis" =>
        LET os == call.args.onset_times
            bs == call.args.beat_times
            on == OnBeatCount(os, bs)
            off == Len(os) - on
            e == call.ret
        IN  /\ e.den > 0
            /\ (Len(os) = 0 \/ Len(bs) = 0) => e.num = 0
            /\ (Len(os) > 0 /\ Len(bs) > 0) =>
                   /\ e.num * Len(os) = (on - off) * e.den
                   /\ on = Len(os) => e.num = e.den
                   /\ on = 0 => e.num = -e.den
                   /\ on = off => e.num = 0
            /\ -e.den <= e.num /\ e.num <= e.den

\* C9 witness: an onset exactly 0.1 s after its beat and one within 0.05 s.
C9_Witness ==
    /\ call.fn = "detect_beat_emphasis"
    /\ call.args.beat_times = <<100, 200>>
    /\ call.args.onset_times = <<95, 110>>
    /\ call.ret.num = 0

\* C10: with 0 or 1 onsets analyze_rhythm returns mean_ioi = 0 and
\* rhythm_consistency = 1.0; onset_count is always the number of onsets; and
\* rhythm_consistency is 1.0 whenever the mean inter-onset interval is not positive.
C10_FewOnsets ==
    call.fn = "analyze_rhythm" =>
        LET os == call.args.onset_times
            r == call.ret
        IN  /\ r.onset_count = Len(os)
            /\ Len(os) <= 1 =>
                   /\ r.mean_ioi.num = 0
                   /\ r.rhythm_consistency.num = r.rhythm_consistency.den
            /\ r.mean_ioi.den > 0 /\ r.rhythm_consistency.den > 0
            /\ r.mean_ioi.num <= 0 => r.rhythm_consistency.num = r.rhythm_consistency.den
            \* the intervals sum to last - first, so the mean is positive iff that is
            /\ (Len(os) >= 2 /\ os[Len(os)] - os[1] <= 0) =>
                   r.rhythm_consistency.num = r.rhythm_consistency.den
            /\ (Len(os) >= 2) =>
                   r.mean_ioi.num * 100 * (Len(os) - 1) = (os[Len(os)] - os[1]) * r.mean_ioi.den

\* C10 witness: a single onset was analysed against a non-empty beat grid.
C10_Witness ==
    /\ call.fn = "analyze_rhythm"
    /\ Len(call.args.onset_times) = 1
    /\ Len(call.args.beat_times) > 0
    /\ call.ret.mean_ioi.num = 0

\* C21: analyze_rhythm followed by detect_strumming_pattern, fingerstyle off:
\* with fewer than 2 onsets rhythm_consistency is the sentinel 1.0, the
\* variable-rhythm branch is taken, and the pattern is ROCK or BALLAD, never
\* WALTZ, BASIC, COUNTRY or REGGAE, whatever the tempo; with no onset at all
\* beat_emphasis is 0.0 and the pattern is ROCK.
C21_FewOnsetsPattern ==
    (/\ call.fn = "strumming_pattern_of_analysis"
     /\ ~call.args.is_fingerstyle
     /\ Len(call.args.onset_times) < 2) =>
        LET features == call.ret.rhythm_features
            pattern == call.ret.strumming_pattern
        IN  /\ RatEquals(features.rhythm_consistency, 1, 1)
            /\ features.tempo = call.args.tempo
            /\ pattern \in {STRUMMING_PATTERNS.rock, STRUMMING_PATTERNS.ballad}
            /\ pattern \notin {STRUMMING_PATTERNS.waltz, STRUMMING_PATTERNS.basic,
                               STRUMMING_PATTERNS.country, STRUMMING_PATTERNS.reggae}
            /\ Len(call.args.onset_times) = 0 =>
                   /\ RatEquals(features.beat_emphasis, 0, 1)
                   /\ pattern = STRUMMING_PATTERNS.rock

\* C21 witness: a single onset on a beat at a slow tempo (beat_emphasis 1.0,
\* which the consistent branch would call a waltz) was classified as BALLAD.
C21_Witness ==
    /\ call.fn = "strumming_pattern_of_analysis"
    /\ ~call.args.is_fingerstyle
    /\ Len(call.args.onset_times) = 1
    /\ call.args.tempo < 100
    /\ RatEquals(call.ret.rhythm_features.beat_emphasis, 1, 1)
    /\ call.ret.strumming_pattern = STRUMMING_PATTERNS.ballad

---------------------------------------------------------------------------
(* Properties of the source separation *)

\* The ways the separation requested by an analyze_audio call can fail.
SeparationFails(path, env) ==
    \/ ~SPLEETER_AVAILABLE
    \/ ~env.mkdtemp_ok
    \/ ~env.ctor_ok
    \/ path \notin ExistingFiles
    \/ ~env.separate_ok
    \/ ~env.stem_exists
    \/ env.enhance = "copy_fails"

\* C15: when source separation is requested and fails in any way (Spleeter
\* unavailable, separator initialisation fails, the separation call raises, the
\* 'other' stem is missing, or isolate_guitar raises), analyze_audio analyses
\* the original audio path and no separation failure reaches its caller.
C15_SeparationFallback ==
    (sep_call.fn = "analyze_audio" /\ sep_call.args.use_source_separation) =>
        /\ sep_call.ret.raised = "None"
        /\ SeparationFails(sep_call.args.audio_path, sep_call.args.env) =>
               sep_call.ret.analysis_path = sep_call.args.audio_path
        /\ ~SeparationFails(sep_call.args.audio_path, sep_call.args.env) =>
               sep_call.ret.analysis_path = EnhancedPath

\* C15 witness: with Spleeter available and a separator that can be built,
\* isolate_guitar raised for a missing file and the analysis went on with the
\* original path.
C15_Witness ==
    /\ sep_call.fn = "analyze_audio"
    /\ sep_call.args.use_source_separation
    /\ SPLEETER_AVAILABLE
    /\ sep_call.args.env.mkdtemp_ok
    /\ sep_call.args.env.ctor_ok
    /\ sep_call.args.audio_path \notin ExistingFiles
    /\ sep_call.ret.analysis_path = sep_call.args.audio_path
    /\ sep_call.ret.raised = "None"

\* C16: isolate_guitar called with a path to a file that does not exist raises
\* FileNotFoundError (it does not return a path), whatever the state of the
\* service instance.
C16_MissingFileRaises ==
    (sep_call.fn = "isolate_guitar" /\ sep_call.args.audio_path \notin ExistingFiles) =>
        /\ sep_call.ret.kind = "raise"
        /\ sep_call.ret.value = "FileNotFoundError"

\* C19: with Spleeter available, every Separator construction on the instance
\* uses the model 'spleeter:4stems'; once one has succeeded no other follows
\* (the stored separator is reused and initialize_separator returns True); a
\* construction that raises propagates and leaves separator unset, so that a
\* later call constructs again.
C19_SeparatorBuiltOnce ==
    (SPLEETER_AVAILABLE /\ sep_pc = "ready") =>
        /\ \A i \in 1..Len(separator_calls) : separator_calls[i].model = "spleeter:4stems"
        /\ \A i \in 1..(Len(separator_calls) - 1) : ~separator_calls[i].ok
        /\ (separator # None) <=>
               (separator_calls # <<>> /\ separator_calls[Len(separator_calls)].ok)
        /\ sep_call.fn \in {"initialize_separator", "isolate_guitar"} =>
               LET before == sep_call.args.separator
                   ctor_ok == IF sep_call.fn = "isolate_guitar"
                              THEN sep_call.args.env.ctor_ok ELSE sep_call.args.ctor_ok
                   ret == sep_call.ret
               IN  /\ before # None =>
                          /\ ret.constructed = <<>>
                          /\ separator = before
                          /\ sep_call.fn = "initialize_separator" =>
                                 (ret.kind = "return" /\ ret.value = TRUE)
                   /\ before = None =>
                          /\ Len(ret.constructed) = 1
                          /\ ret.constructed[1].ok = ctor_ok
                          /\ ~ctor_ok => (ret.kind = "raise" /\ separator = None)
                          /\ (ctor_ok /\ sep_call.fn = "initialize_separator") =>
                                 (ret.kind = "return" /\ ret.value = TRUE)

\* C19 witness: a construction raised, a later call constructed again and
\* succeeded, and a call after that reused the stored separator.
C19_Witness ==
    /\ SPLEETER_AVAILABLE
    /\ Len(separator_calls) = 2
    /\ ~separator_calls[1].ok
    /\ separator_calls[2].ok
    /\ sep_call.fn = "initialize_separator"
    /\ sep_call.args.separator # None
    /\ sep_call.ret.value = TRUE

====
